---- MODULE Spec2Model ----
(***************************************************************************)
(* A model of minian/preprocessing.py: the bright-spot detectors           *)
(* (detect_brightspot, detect_brightspot_perframe) and the bright-spot     *)
(* corrector (correct_brightspot).                                         *)
(*                                                                         *)
(* Samples are exact rationals <<num, den>> (a floating sample type,       *)
(* idealised: no rounding).  A labelled array is a function from           *)
(* coordinate records to samples; a HashableDict is a record from axis     *)
(* name to coordinate.                                                     *)
(***************************************************************************)
EXTENDS Integers, Sequences, FiniteSets, TLC

VARIABLES
    pc,         \* position in the running function
    varray,     \* the caller's video:  [frame, height, width] -> sample
    varray0,    \* history: the caller's video when the call began
    copied,     \* the buffer made by varray.copy(), or <<>> when none exists
    varr_ds,    \* which buffer the name varr_ds is bound to: "varray" / "copy" / "none"
    spots,      \* the mask: point -> count
    spot_dim,   \* the mask's axes, in order
    window,     \* correct_brightspot: box radius; detect_brightspot: tile side
    arg_spot_thres, \* history: the spot_thres the caller passed
    spot_thres, \* correct_brightspot's local spot_thres (the caller's value, then maybe 0)
    inplace,    \* correct_brightspot's inplace argument
    brt_list,   \* sequence of flagged points
    sur_list,   \* sequence of neighbor sets, one per flagged point
    ibrt,       \* loop index into brt_list (1-based)
    cur_sur,    \* per unit of work: the mean it gathered and has not written yet
    unit,       \* per unit of work: "todo", "read" or "done" (concurrent schedule only)
    ret,        \* what the call returned: [obj, data, name]
    thres,      \* the detectors' thres argument: [given, num, den]
    step,       \* detect_brightspot's step argument
    meanfm,     \* detect_brightspot: the time-mean frame (times the frame count)
    ih,         \* detect_brightspot: label of the height window being visited
    iw,         \* detect_brightspot: label of the width window being visited
    processed,  \* history: tile <<ih, iw>> -> the cur_thres it was processed with
    delayed     \* detect_brightspot_perframe: per task, its result once computed

vars == <<pc, varray, varray0, copied, varr_ds, spots, spot_dim, window,
          arg_spot_thres, spot_thres, inplace, brt_list, sur_list, ibrt, cur_sur, unit, ret,
          thres, step, meanfm, ih, iw, processed, delayed>>

\* the variables each function leaves alone
detvars == <<thres, step, meanfm, ih, iw, processed, delayed>>
corvars == <<varray0, arg_spot_thres, copied, varr_ds, spot_dim, spot_thres, inplace,
             brt_list, sur_list, ibrt, cur_sur, ret>>

----------------------------------------------------------------------------
(* Bounds of the model *)

NFrame == 2        \* frames of the video
NHeight == 1       \* rows of the video
NWidth == 3        \* columns of the video
MaxPositive == 3   \* positive entries of a mask over (height, width)
MaxPositive3 == 1  \* positive entries of a mask over (frame, height, width)
DetHeight == 3     \* rows of the video given to the detectors
DetWidth == 5      \* columns of the video given to the detectors
MaxAmp == 2        \* brightness of the spot laid over a detector video
MaxThres == 1      \* largest thres given to detect_brightspot
MaxStep == 2       \* largest step given to detect_brightspot

(* Program constants *)

DefaultWindow == 2
DefaultSpotThres == 10

----------------------------------------------------------------------------
(* Exact rational arithmetic on samples *)

RECURSIVE GCD(_, _)
GCD(a, b) == IF b = 0 THEN a ELSE GCD(b, a % b)

Rat(n, d) == LET g == GCD(n, d) IN <<n \div g, d \div g>>

RatAdd(x, y) == Rat(x[1] * y[2] + y[1] * x[2], x[2] * y[2])

RatDivInt(x, k) == Rat(x[1], x[2] * k)

\* the sum of the samples val[e], e in S
RECURSIVE RatSum(_, _)
RatSum(S, val) ==
    IF S = {} THEN <<0, 1>>
    ELSE LET e == CHOOSE e \in S : TRUE
         IN RatAdd(val[e], RatSum(S \ {e}, val))

----------------------------------------------------------------------------
(* Labelled arrays *)

Frames == 0 .. NFrame - 1
Heights == 0 .. NHeight - 1
Widths == 0 .. NWidth - 1

Coords(dim) ==
    CASE dim = "frame" -> Frames
      [] dim = "height" -> Heights
      [] dim = "width" -> Widths

VideoDims == <<"frame", "height", "width">>

Cells == [frame : Frames, height : Heights, width : Widths]

Range(s) == {s[i] : i \in DOMAIN s}

\* the points of an array over the axes dims
Points(dims) ==
    IF Len(dims) = 2 THEN [height : Heights, width : Widths] ELSE Cells

\* array.loc[point]: the cells of the video a point selects
Loc(point) == {c \in Cells : \A d \in DOMAIN point : c[d] = point[d]}

\* position of a point in C (row-major) order over its axes dims[1..i]
RECURSIVE FlatIndex(_, _, _)
FlatIndex(point, dims, i) ==
    IF i = 0 THEN 0
    ELSE FlatIndex(point, dims, i - 1) * Cardinality(Coords(dims[i])) + point[dims[i]]

\* the points of S as a sequence in C order (the order of np.nonzero)
RECURSIVE InCOrder(_, _)
InCOrder(S, dims) ==
    IF S = {} THEN <<>>
    ELSE LET first == CHOOSE p \in S : \A q \in S :
                          FlatIndex(p, dims, Len(dims)) <= FlatIndex(q, dims, Len(dims))
         IN <<first>> \o InCOrder(S \ {first}, dims)

\* the sum of the integers val[e], e in S
RECURSIVE IntSum(_, _)
IntSum(S, val) ==
    IF S = {} THEN 0
    ELSE LET e == CHOOSE e \in S : TRUE
         IN val[e] + IntSum(S \ {e}, val)

----------------------------------------------------------------------------
(* The inputs the model draws from *)

\* a video whose samples tell the pixels apart, and a smooth one with ties
Videos ==
    { [c \in Cells |-> <<2 ^ (c.height * NWidth + c.width) + c.frame, 1>>],
      [c \in Cells |-> <<c.height + c.width + 2 * c.frame, 1>>] }

RECURSIVE SubsetsUpTo(_, _)
SubsetsUpTo(S, k) ==
    IF k = 0 THEN {{}}
    ELSE LET prev == SubsetsUpTo(S, k - 1)
         IN prev \cup {T \cup {x} : T \in prev, x \in S}

\* the masks over P with at most k positive entries, each drawn from vals
MasksOver(P, vals, k) ==
    UNION { { [p \in P |-> IF p \in T THEN a[p] ELSE 0] : a \in [T -> vals] }
            : T \in SubsetsUpTo(P, k) }

\* a vote-count mask over (height, width), as detect_brightspot makes
Masks2 ==
    MasksOver(Points(<<"height", "width">>),
              {DefaultSpotThres, DefaultSpotThres + 1}, MaxPositive)

\* a 0/1 mask over (frame, height, width), as detect_brightspot_perframe makes
Masks3 == MasksOver(Points(VideoDims), {1}, MaxPositive3)

NoReturn == [obj |-> "none", data |-> "none", name |-> <<>>]

----------------------------------------------------------------------------
(* correct_brightspot(varray, spots, window, spot_thres, inplace) *)

\* the buffer a name is bound to
Buffer(ref) == IF ref = "copy" THEN copied ELSE varray

\* line 121: spots.sum()
SpotsSum == IntSum(DOMAIN spots, spots)

\* lines 130-131: the threshold in force
ActiveThres(dims, thr) == IF Len(dims) > 2 THEN 0 ELSE thr

\* mutant: an entry equal to the threshold is flagged too
Flagged_GE(mask, thr) == {p \in DOMAIN mask : mask[p] >= thr}

\* line 132: spots.values > spot_thres
Flagged(mask, thr) == {p \in DOMAIN mask : mask[p] > thr}

\* mutant: the box is not cut to the video's coordinates
CordRg_NoClip(dim, co, win) == co - win .. co + win

\* lines 140-143: one axis of the box, cut to the video's coordinates
CordRg(dim, co, win) == (co - win .. co + win) \cap Coords(dim)

\* lines 144-148: itt.product over the mask's axes
Product(brt_cord, win) ==
    IF DOMAIN brt_cord = {"height", "width"}
    THEN { [height |-> h, width |-> w] :
             h \in CordRg("height", brt_cord.height, win),
             w \in CordRg("width", brt_cord.width, win) }
    ELSE { [frame |-> f, height |-> h, width |-> w] :
             f \in CordRg("frame", brt_cord.frame, win),
             h \in CordRg("height", brt_cord.height, win),
             w \in CordRg("width", brt_cord.width, win) }

\* mutant: only the point itself is taken out of its box
CurSur_OnlySelf(brt_cord, win, brts) == Product(brt_cord, win) \ {brt_cord}

\* line 149: set(cur_sur_list) - set(brt_list)
CurSur(brt_cord, win, brts) == Product(brt_cord, win) \ Range(brts)

\* varr_ds.loc[cord_samp] at the reduced-axis index of cell c
Sample(buf, cord_samp, c) ==
    buf[[d \in DOMAIN c |-> IF d \in DOMAIN cord_samp THEN cord_samp[d] ELSE c[d]]]

\* lines 156-166: cur_sur.mean(dim='sample'), one value per reduced-axis index
SurMean(buf, sur, cur_brt) ==
    [c \in Loc(cur_brt) |->
        RatDivInt(RatSum(sur, [q \in sur |-> Sample(buf, q, c)]), Cardinality(sur))]

\* line 166: varr_ds.loc[cur_brt] = mean
Store(buf, mean) == [c \in DOMAIN buf |-> IF c \in DOMAIN mean THEN mean[c] ELSE buf[c]]

WriteBuffer(new) ==
    IF varr_ds = "copy"
    THEN copied' = new /\ UNCHANGED varray
    ELSE varray' = new /\ UNCHANGED copied

InitCorrect ==
    /\ pc = "cb_check"
    /\ varray \in Videos
    /\ varray0 = varray
    /\ copied = <<>>
    /\ varr_ds = "none"
    /\ spot_dim \in {<<"height", "width">>, VideoDims}
    /\ spots \in IF Len(spot_dim) = 2 THEN Masks2 ELSE Masks3
    /\ window \in 1 .. DefaultWindow
    /\ spot_thres \in {0, DefaultSpotThres}
    /\ arg_spot_thres = spot_thres
    /\ inplace \in BOOLEAN
    /\ brt_list = <<>>
    /\ sur_list = <<>>
    /\ ibrt = 0
    /\ cur_sur = <<>>
    /\ unit = <<>>
    /\ ret = NoReturn
    /\ thres = [given |-> FALSE, num |-> 0, den |-> 1]
    /\ step = 0 /\ ih = 0 /\ iw = 0
    /\ meanfm = <<>>
    /\ processed = <<>>
    /\ delayed = <<>>

\* mutant: no short-circuit on an empty mask
CB_Check_NoShortCircuit ==
    /\ pc = "cb_check"
    /\ pc' = "cb_copy"
    /\ UNCHANGED <<varray, varray0, arg_spot_thres, copied, varr_ds, spots, spot_dim,
                   window, spot_thres, inplace, brt_list, sur_list, ibrt, cur_sur,
                   unit, ret, detvars>>

\* lines 121-123
CB_Check ==
    /\ pc = "cb_check"
    /\ IF ~(SpotsSum > 0)
       THEN /\ ret' = [obj |-> "varray", data |-> "varray", name |-> <<"varr">>]
            /\ pc' = "done"
       ELSE /\ pc' = "cb_copy"
            /\ UNCHANGED ret
    /\ UNCHANGED <<varray, varray0, arg_spot_thres, copied, varr_ds, spots, spot_dim, window,
                   spot_thres, inplace, brt_list, sur_list, ibrt, cur_sur, unit, detvars>>

\* mutant: the working array is the caller's array whatever inplace says
CB_Copy_Alias ==
    /\ pc = "cb_copy"
    /\ varr_ds' = "varray"
    /\ pc' = "cb_flag"
    /\ UNCHANGED <<varray, varray0, arg_spot_thres, copied, spots, spot_dim, window,
                   spot_thres, inplace, brt_list, sur_list, ibrt, cur_sur, unit, ret, detvars>>

\* lines 124-127
CB_Copy ==
    /\ pc = "cb_copy"
    /\ IF ~inplace
       THEN copied' = varray /\ varr_ds' = "copy"
       ELSE varr_ds' = "varray" /\ UNCHANGED copied
    /\ pc' = "cb_flag"
    /\ UNCHANGED <<varray, varray0, arg_spot_thres, spots, spot_dim, window, spot_thres, inplace,
                   brt_list, sur_list, ibrt, cur_sur, unit, ret, detvars>>

\* lines 128-138
CB_Flag ==
    /\ pc = "cb_flag"
    /\ spot_thres' = ActiveThres(spot_dim, spot_thres)
    /\ brt_list' = InCOrder(Flagged(spots, spot_thres'), spot_dim)
    /\ sur_list' = <<>>
    /\ ibrt' = 1
    /\ pc' = "cb_sur"
    /\ UNCHANGED <<varray, varray0, arg_spot_thres, copied, varr_ds, spots, spot_dim, window,
                   inplace, cur_sur, unit, ret, detvars>>

\* lines 139-150: one pass of the loop that builds the neighbor sets
CB_Sur ==
    /\ pc = "cb_sur"
    /\ ibrt <= Len(brt_list)
    /\ sur_list' = Append(sur_list, CurSur(brt_list[ibrt], window, brt_list))
    /\ ibrt' = ibrt + 1
    /\ UNCHANGED <<pc, varray, varray0, arg_spot_thres, copied, varr_ds, spots, spot_dim, window,
                   spot_thres, inplace, brt_list, cur_sur, unit, ret, detvars>>

\* line 139: the loop is exhausted
CB_SurExit ==
    /\ pc = "cb_sur"
    /\ ibrt > Len(brt_list)
    /\ ibrt' = 1
    /\ pc' = "cb_fix"
    /\ UNCHANGED <<varray, varray0, arg_spot_thres, copied, varr_ds, spots, spot_dim, window,
                   spot_thres, inplace, brt_list, sur_list, cur_sur, unit, ret, detvars>>

\* mutant: a point without neighbors is overwritten with the empty stack's zeros
CB_Fix_NoGuard ==
    /\ pc = "cb_fix"
    /\ ibrt <= Len(brt_list)
    /\ IF Cardinality(sur_list[ibrt]) > 0
       THEN WriteBuffer(Store(Buffer(varr_ds),
                              SurMean(Buffer(varr_ds), sur_list[ibrt], brt_list[ibrt])))
       ELSE WriteBuffer(Store(Buffer(varr_ds),
                              [c \in Loc(brt_list[ibrt]) |-> <<0, 1>>]))
    /\ ibrt' = ibrt + 1
    /\ UNCHANGED <<pc, varray0, arg_spot_thres, varr_ds, spots, spot_dim, window,
                   spot_thres, inplace, brt_list, sur_list, cur_sur, unit, ret, detvars>>

\* lines 151-169: one pass of the loop that corrects the flagged points
CB_Fix ==
    /\ pc = "cb_fix"
    /\ ibrt <= Len(brt_list)
    /\ IF Cardinality(sur_list[ibrt]) > 0
       THEN WriteBuffer(Store(Buffer(varr_ds),
                              SurMean(Buffer(varr_ds), sur_list[ibrt], brt_list[ibrt])))
       ELSE UNCHANGED <<varray, copied>>
    /\ ibrt' = ibrt + 1
    /\ UNCHANGED <<pc, varray0, arg_spot_thres, varr_ds, spots, spot_dim, window, spot_thres,
                   inplace, brt_list, sur_list, cur_sur, unit, ret, detvars>>

\* line 151: the loop is exhausted
CB_FixExit ==
    /\ pc = "cb_fix"
    /\ ibrt > Len(brt_list)
    /\ pc' = "cb_return"
    /\ UNCHANGED <<varray, varray0, arg_spot_thres, copied, varr_ds, spots, spot_dim, window,
                   spot_thres, inplace, brt_list, sur_list, ibrt, cur_sur, unit, ret, detvars>>

\* line 171: rename makes a new array object over the same buffer
CB_Return ==
    /\ pc = "cb_return"
    /\ ret' = [obj |-> "renamed", data |-> varr_ds, name |-> <<"varr", "_DeSpotted">>]
    /\ pc' = "done"
    /\ UNCHANGED <<varray, varray0, arg_spot_thres, copied, varr_ds, spots, spot_dim, window,
                   spot_thres, inplace, brt_list, sur_list, ibrt, cur_sur, unit, detvars>>

NextCorrect ==
    \/ CB_Check
    \/ CB_Copy
    \/ CB_Flag
    \/ CB_Sur
    \/ CB_SurExit
    \/ CB_Fix
    \/ CB_FixExit
    \/ CB_Return

Spec == InitCorrect /\ [][NextCorrect]_vars

----------------------------------------------------------------------------
(* The per-point units of work of lines 151-169 under a concurrent         *)
(* schedule: each unit gathers its neighbors' samples (lines 156-165) and  *)
(* later writes their mean (line 166); units interleave freely.            *)

InitPar == InitCorrect /\ inplace

\* line 151, handed to a scheduler instead of a loop
Par_Start ==
    /\ pc = "cb_sur"
    /\ ibrt > Len(brt_list)
    /\ unit' = [i \in 1 .. Len(brt_list) |-> "todo"]
    /\ cur_sur' = [i \in 1 .. Len(brt_list) |-> <<>>]
    /\ pc' = "par_fix"
    /\ UNCHANGED <<varray, varray0, arg_spot_thres, copied, varr_ds, spots, spot_dim,
                   window, spot_thres, inplace, brt_list, sur_list, ibrt, ret, detvars>>

\* lines 155-165: unit i reads its neighbors
Par_Read(i) ==
    /\ pc = "par_fix"
    /\ unit[i] = "todo"
    /\ Cardinality(sur_list[i]) > 0
    /\ cur_sur' = [cur_sur EXCEPT
                     ![i] = SurMean(Buffer(varr_ds), sur_list[i], brt_list[i])]
    /\ unit' = [unit EXCEPT ![i] = "read"]
    /\ UNCHANGED <<pc, varray, varray0, arg_spot_thres, copied, varr_ds, spots,
                   spot_dim, window, spot_thres, inplace, brt_list, sur_list, ibrt, ret, detvars>>

\* line 166: unit i writes the mean it gathered
Par_Write(i) ==
    /\ pc = "par_fix"
    /\ unit[i] = "read"
    /\ WriteBuffer(Store(Buffer(varr_ds), cur_sur[i]))
    /\ cur_sur' = [cur_sur EXCEPT ![i] = <<>>]
    /\ unit' = [unit EXCEPT ![i] = "done"]
    /\ UNCHANGED <<pc, varray0, arg_spot_thres, varr_ds, spots, spot_dim, window,
                   spot_thres, inplace, brt_list, sur_list, ibrt, ret, detvars>>

\* lines 167-169: unit i has no neighbor and only reports its point
Par_Skip(i) ==
    /\ pc = "par_fix"
    /\ unit[i] = "todo"
    /\ Cardinality(sur_list[i]) = 0
    /\ unit' = [unit EXCEPT ![i] = "done"]
    /\ UNCHANGED <<pc, varray, varray0, arg_spot_thres, copied, varr_ds, spots,
                   spot_dim, window, spot_thres, inplace, brt_list, sur_list, ibrt,
                   cur_sur, ret, detvars>>

\* every unit is finished
Par_Join ==
    /\ pc = "par_fix"
    /\ \A i \in DOMAIN unit : unit[i] = "done"
    /\ pc' = "cb_return"
    /\ UNCHANGED <<varray, varray0, arg_spot_thres, copied, varr_ds, spots, spot_dim,
                   window, spot_thres, inplace, brt_list, sur_list, ibrt, cur_sur,
                   unit, ret, detvars>>

NextPar ==
    \/ CB_Check
    \/ CB_Copy
    \/ CB_Flag
    \/ CB_Sur
    \/ Par_Start
    \/ \E i \in DOMAIN unit : Par_Read(i)
    \/ \E i \in DOMAIN unit : Par_Write(i)
    \/ \E i \in DOMAIN unit : Par_Skip(i)
    \/ Par_Join
    \/ CB_Return

SpecPar == InitPar /\ [][NextPar]_vars

\* the video the loop of lines 151-169 leaves, run in order from buf at index i
RECURSIVE SequentialFix(_, _)
SequentialFix(buf, i) ==
    IF i > Len(brt_list) THEN buf
    ELSE SequentialFix(
             IF Cardinality(sur_list[i]) > 0
             THEN Store(buf, SurMean(buf, sur_list[i], brt_list[i]))
             ELSE buf,
             i + 1)

----------------------------------------------------------------------------
(* The detectors' inputs: integer videos over (frame, height, width), a    *)
(* background with one bright pixel laid over it in every frame            *)

DetHeights == 0 .. DetHeight - 1
DetWidths == 0 .. DetWidth - 1
DetCells == [frame : Frames, height : DetHeights, width : DetWidths]
Pixels == [height : DetHeights, width : DetWidths]

Pix(h, w) == [height |-> h, width |-> w]
Cell(f, p) == [frame |-> f, height |-> p.height, width |-> p.width]

Background(b, c) ==
    CASE b = 0 -> 1
      [] b = 1 -> c.height + 2 * c.width + c.frame
      [] b = 2 -> ((c.height + 1) * (c.height + 1) * (c.width + 2)
                     + c.frame * (c.height + c.width + 1)) % 4

DetVideos ==
    { [c \in DetCells |->
          Background(b, c) + (IF Pix(c.height, c.width) = s THEN amp ELSE 0)]
      : b \in 0 .. 2, s \in Pixels, amp \in 0 .. MaxAmp }

NoThres == [given |-> FALSE, num |-> 0, den |-> 1]
Given(n, d) == [given |-> TRUE, num |-> n, den |-> d]

Max(a, b) == IF a > b THEN a ELSE b

----------------------------------------------------------------------------
(* detect_brightspot(varray, thres, window, step)                          *)
(*                                                                         *)
(* A z-score is kept exactly: z = d / sqrt(v) with integers d and v >= 0,  *)
(* and v = 0 stands for NaN (the 0/0 of a population without variance).    *)

\* line 54: varray.mean(dim='frame'), times the frame count (a z-score does
\* not change under a positive scale)
Mean(video) ==
    [p \in Pixels |-> IntSum(Frames, [f \in Frames |-> video[Cell(f, p)]])]

\* lines 55, 57: the size of the rolling window that ends at label i
RollSize(i, win) == i - Max(0, i - win + 1) + 1

\* lines 56, 58-59: the tile ending at (ihh, iww) is processed
TileCond(ihh, iww) ==
    /\ iww % step = 0
    /\ RollSize(ihh, window) = window
    /\ RollSize(iww, window) = window

\* lines 66-67: the labels slice(i - window + 1, i) selects
Slice(i) == i - window + 1 .. i

\* the pixels of the tile ending at (ihh, iww)
TilePixels(ihh, iww) == {p \in Pixels : p.height \in Slice(ihh) /\ p.width \in Slice(iww)}

\* line 60: scipy's zscore runs along axis 0, the tile's height axis: each
\* pixel is scored against its own column of the tile
ZScore(m, ihh, p) ==
    LET R == Slice(ihh)
        n == Cardinality(R)
        S == IntSum(R, [r \in R |-> m[Pix(r, p.width)]])
        Q == IntSum(R, [r \in R |-> m[Pix(r, p.width)] * m[Pix(r, p.width)]])
    IN [d |-> n * m[p] - S, v |-> n * Q - S * S]

MeanZ(ihh, iww) == [p \in TilePixels(ihh, iww) |-> ZScore(meanfm, ihh, p)]

IsNaN(z) == z.v = 0

\* a < b for two z-scores that are numbers
ZLess(a, b) ==
    IF a.d < 0 /\ b.d >= 0 THEN TRUE
    ELSE IF a.d >= 0 /\ b.d < 0 THEN FALSE
    ELSE IF a.d >= 0 THEN a.d * a.d * b.v < b.d * b.d * a.v
    ELSE a.d * a.d * b.v > b.d * b.d * a.v

\* line 68: a > b as floating point compares, false when either is NaN
ZGreater(a, b) == ~IsNaN(a) /\ ~IsNaN(b) /\ ZLess(b, a)

\* line 62: mean_z.min(), skipping NaN; NaN when every entry is NaN
ZMin(mz) ==
    LET nums == {p \in DOMAIN mz : ~IsNaN(mz[p])}
    IN IF nums = {} THEN [d |-> 0, v |-> 0]
       ELSE mz[CHOOSE p \in nums : \A q \in nums : ~ZLess(mz[q], mz[p])]

ZNeg(z) == [d |-> -z.d, v |-> z.v]

\* the thres argument as a z-score
ZOf(t) == [d |-> t.num, v |-> t.den * t.den]

\* line 61: Python's truth value of thres
Truthy(t) == t.given /\ t.num # 0

\* lines 61-64
CurThres(mz) == IF ~Truthy(thres) THEN ZNeg(ZMin(mz)) ELSE ZOf(thres)

\* mutant: the tile's votes replace the mask's entries
AddVotes_Assign(mask, mz, cur) ==
    [p \in DOMAIN mask |->
        IF p \in DOMAIN mz
        THEN (IF ZGreater(mz[p], cur) THEN 1 ELSE 0)
        ELSE mask[p]]

\* lines 65-68: spots.loc[tile] += mean_z > cur_thres
AddVotes(mask, mz, cur) ==
    [p \in DOMAIN mask |->
        IF p \in DOMAIN mz
        THEN mask[p] + (IF ZGreater(mz[p], cur) THEN 1 ELSE 0)
        ELSE mask[p]]

InitDetect ==
    /\ pc = "db_start"
    /\ varray \in DetVideos
    /\ thres \in {NoThres} \cup {Given(t, 1) : t \in 0 .. MaxThres}
    /\ window \in 2 .. DetHeight
    /\ step \in 1 .. MaxStep
    /\ spots = <<>>
    /\ meanfm = <<>>
    /\ ih = 0 /\ iw = 0
    /\ processed = <<>>
    /\ delayed = <<>>
    /\ unit = <<>>
    /\ varray0 = varray
    /\ arg_spot_thres = 0 /\ spot_thres = 0
    /\ copied = <<>> /\ varr_ds = "none"
    /\ spot_dim = <<"height", "width">>
    /\ inplace = FALSE
    /\ brt_list = <<>> /\ sur_list = <<>> /\ ibrt = 0 /\ cur_sur = <<>>
    /\ ret = NoReturn

\* lines 51-54
DB_Start ==
    /\ pc = "db_start"
    /\ spots' = [p \in Pixels |-> 0]
    /\ meanfm' = Mean(varray)
    /\ ih' = 0
    /\ pc' = "db_h"
    /\ UNCHANGED <<varray, window, unit, thres, step, iw, processed, delayed, corvars>>

\* lines 55-56: a height window whose label is no multiple of step
DB_HeightSkip ==
    /\ pc = "db_h"
    /\ ih < DetHeight
    /\ ih % step # 0
    /\ ih' = ih + 1
    /\ UNCHANGED <<pc, varray, spots, window, unit, thres, step, meanfm, iw, processed,
                   delayed, corvars>>

\* lines 55-57: a height window whose label is a multiple of step
DB_HeightEnter ==
    /\ pc = "db_h"
    /\ ih < DetHeight
    /\ ih % step = 0
    /\ iw' = 0
    /\ pc' = "db_w"
    /\ UNCHANGED <<varray, spots, window, unit, thres, step, meanfm, ih, processed,
                   delayed, corvars>>

\* lines 57-59: a width window that is passed over
DB_WidthSkip ==
    /\ pc = "db_w"
    /\ iw < DetWidth
    /\ ~TileCond(ih, iw)
    /\ iw' = iw + 1
    /\ UNCHANGED <<pc, varray, spots, window, unit, thres, step, meanfm, ih, processed,
                   delayed, corvars>>

\* lines 57-73: a tile is processed
DB_Tile ==
    /\ pc = "db_w"
    /\ iw < DetWidth
    /\ TileCond(ih, iw)
    /\ LET mean_z == MeanZ(ih, iw)
           cur_thres == CurThres(mean_z)
       IN /\ spots' = AddVotes(spots, mean_z, cur_thres)
          /\ processed' = (<<ih, iw>> :> cur_thres) @@ processed
    /\ iw' = iw + 1
    /\ UNCHANGED <<pc, varray, window, unit, thres, step, meanfm, ih, delayed, corvars>>

\* line 57: the width windows are exhausted
DB_WidthExit ==
    /\ pc = "db_w"
    /\ iw >= DetWidth
    /\ ih' = ih + 1
    /\ pc' = "db_h"
    /\ UNCHANGED <<varray, spots, window, unit, thres, step, meanfm, iw, processed,
                   delayed, corvars>>

\* lines 55, 74-75: the height windows are exhausted
DB_Return ==
    /\ pc = "db_h"
    /\ ih >= DetHeight
    /\ pc' = "done"
    /\ UNCHANGED <<varray, spots, window, unit, thres, step, meanfm, ih, iw, processed,
                   delayed, corvars>>

NextDetect ==
    \/ DB_Start
    \/ DB_HeightSkip
    \/ DB_HeightEnter
    \/ DB_WidthSkip
    \/ DB_Tile
    \/ DB_WidthExit
    \/ DB_Return

SpecDetect == InitDetect /\ [][NextDetect]_vars

----------------------------------------------------------------------------
(* detect_brightspot_perframe(varray, thres)                               *)

\* the quantiles asked for: 0, 1/2, the default 0.95, and 1
Quantiles == {Given(0, 1), Given(1, 2), Given(19, 20), Given(1, 1)}

\* the samples val[e], e in S, in ascending order
RECURSIVE Sorted(_, _)
Sorted(S, val) ==
    IF S = {} THEN <<>>
    ELSE LET least == CHOOSE e \in S : \A o \in S : val[e] <= val[o]
         IN <<val[least]>> \o Sorted(S \ {least}, val)

\* mutant: interpolation='higher'
Quantile_Higher(val, q) ==
    LET n == Cardinality(DOMAIN val)
    IN Sorted(DOMAIN val, val)[((q.num * (n - 1) + q.den - 1) \div q.den) + 1]

\* line 82: f.quantile(thres, interpolation='lower') over all of f's samples:
\* the sorted sample at index floor(thres * (n - 1)), counted from 0
Quantile(val, q) ==
    LET n == Cardinality(DOMAIN val)
    IN Sorted(DOMAIN val, val)[((q.num * (n - 1)) \div q.den) + 1]

\* lines 81-83: the window rolling(frame=1) yields for label fid
FrameOf(video, fid) == [p \in Pixels |-> video[Cell(fid, p)]]

\* line 82: the task's function, f > f.quantile(...)
FrameSpots(f) ==
    LET qt == Quantile(f, thres)
    IN [p \in DOMAIN f |-> f[p] > qt]

InitPerframe ==
    /\ pc = "pf_schedule"
    /\ varray \in DetVideos
    /\ thres \in Quantiles
    /\ spots = <<>>
    /\ delayed = <<>>
    /\ unit = <<>>
    /\ window = 0 /\ step = 0 /\ meanfm = <<>> /\ ih = 0 /\ iw = 0
    /\ processed = <<>>
    /\ varray0 = varray
    /\ arg_spot_thres = 0 /\ spot_thres = 0
    /\ copied = <<>> /\ varr_ds = "none"
    /\ spot_dim = VideoDims
    /\ inplace = FALSE
    /\ brt_list = <<>> /\ sur_list = <<>> /\ ibrt = 0 /\ cur_sur = <<>>
    /\ ret = NoReturn

\* lines 80-84: one delayed task per frame, in frame order; unit[i] is 0 until
\* task i has run and then its rank among the tasks run
PF_Schedule ==
    /\ pc = "pf_schedule"
    /\ delayed' = [i \in 1 .. NFrame |-> [frame |-> i - 1, flags |-> <<>>]]
    /\ unit' = [i \in 1 .. NFrame |-> 0]
    /\ pc' = "pf_compute"
    /\ UNCHANGED <<varray, spots, window, thres, step, meanfm, ih, iw, processed,
                   corvars>>

\* line 87: the scheduler runs task i, whichever it picks next
PF_Task(i) ==
    /\ pc = "pf_compute"
    /\ unit[i] = 0
    /\ delayed' = [delayed EXCEPT
                     ![i].flags = FrameSpots(FrameOf(varray, delayed[i].frame))]
    /\ unit' = [unit EXCEPT ![i] = 1 + Cardinality({j \in DOMAIN unit : unit[j] > 0})]
    /\ UNCHANGED <<pc, varray, spots, window, thres, step, meanfm, ih, iw,
                   processed, corvars>>

\* lines 87-90: compute hands the results back in list order; concat joins them
PF_Concat ==
    /\ pc = "pf_compute"
    /\ \A i \in DOMAIN unit : unit[i] > 0
    /\ spots' = delayed
    /\ pc' = "done"
    /\ UNCHANGED <<varray, window, unit, thres, step, meanfm, ih, iw, processed,
                   delayed, corvars>>

NextPerframe ==
    \/ PF_Schedule
    \/ \E i \in DOMAIN unit : PF_Task(i)
    \/ PF_Concat

SpecPerframe == InitPerframe /\ [][NextPerframe]_vars

----------------------------------------------------------------------------
(* What the claims about correct_brightspot speak of, stated from the      *)
(* call's arguments alone                                                  *)

\* the call ran past the short-circuit and returned
Completed == pc = "done" /\ ret.obj = "renamed"

\* the video the call returned
Returned == Buffer(ret.data)

Abs(x) == IF x < 0 THEN -x ELSE x

\* point Q lies in the box of radius window around point P
InBox(P, Q) == \A d \in DOMAIN P : Abs(Q[d] - P[d]) <= window

\* point P selects cell c
Covers(P, c) == \A d \in DOMAIN P : c[d] = P[d]

\* the mask entries above the threshold in force
FlaggedPoints ==
    {p \in DOMAIN spots :
        spots[p] > (IF Len(spot_dim) = 3 THEN 0 ELSE arg_spot_thres)}

\* the in-extent points within window of P on every mask axis that are not
\* among the flagged points F
BoxNeighbors(P, F) == {q \in Points(spot_dim) \ F : InBox(P, q)}

\* the mean, at the reduced-axis index of cell c, of the samples that the
\* points of N held when the call began
OriginalMean(N, c) ==
    RatDivInt(RatSum(N, [q \in N |-> Sample(varray0, q, c)]), Cardinality(N))

\* the video with every flagged point that has neighbors replaced by the mean
\* of its neighbors' original samples
Corrected ==
    LET F == FlaggedPoints
        N == [P \in F |-> BoxNeighbors(P, F)]
    IN [c \in Cells |->
           IF \E P \in F : Covers(P, c) /\ N[P] # {}
           THEN OriginalMean(N[CHOOSE P \in F : Covers(P, c)], c)
           ELSE varray0[c]]

C2_NeighborSetExact ==
    pc = "cb_sur" =>
        LET F == FlaggedPoints
        IN \A i \in 1 .. Len(sur_list) :
               /\ sur_list[i] = BoxNeighbors(brt_list[i], F)
               /\ brt_list[i] \notin sur_list[i]
               /\ sur_list[i] \cap F = {}
               /\ \A q \in sur_list[i] : \A d \in DOMAIN q : q[d] \in Coords(d)

\* a flagged corner point whose box of radius 2 overhangs the extent and holds
\* another flagged point, and whose neighbor set is not empty
C2_Witness ==
    /\ pc = "cb_sur"
    /\ window = 2
    /\ \E i \in 1 .. Len(sur_list) :
          /\ \A d \in DOMAIN brt_list[i] : brt_list[i][d] = 0
          /\ sur_list[i] # {}
          /\ \E j \in 1 .. Len(brt_list) : j # i /\ InBox(brt_list[i], brt_list[j])

\* C3: with a mask that has no positive entry the call returns the input
\* array itself, makes no copy, writes no sample and builds no neighbor set.
C3_EmptyMaskIsNoOp ==
    (pc # "cb_check" /\ \A p \in DOMAIN spots : spots[p] <= 0) =>
        /\ pc = "done"
        /\ ret = [obj |-> "varray", data |-> "varray", name |-> <<"varr">>]
        /\ varray = varray0
        /\ varr_ds = "none"
        /\ brt_list = <<>> /\ sur_list = <<>>

C3_Witness ==
    /\ pc = "done"
    /\ \A p \in DOMAIN spots : spots[p] = 0
    /\ ~inplace

\* C4: a flagged point with an empty neighbor set keeps its pre-call value at
\* every index of the reduced axes, the other flagged points are still
\* corrected, and the call does not stop short of its return.
C4_IsolatedPointKept ==
    LET F == FlaggedPoints
        isolated == {P \in F : BoxNeighbors(P, F) = {}}
    IN isolated # {} =>
          /\ Completed =>
                \A P \in F : \A c \in Loc(P) :
                    Returned[c] = IF P \in isolated
                                  THEN varray0[c]
                                  ELSE OriginalMean(BoxNeighbors(P, F), c)
          /\ pc # "done" => ENABLED NextCorrect

\* an isolated flagged point, and next to it a flagged point that was corrected
C4_Witness ==
    /\ Completed
    /\ \E P, Q \in FlaggedPoints :
          /\ BoxNeighbors(P, FlaggedPoints) = {}
          /\ BoxNeighbors(Q, FlaggedPoints) # {}
          /\ \E c \in Loc(Q) : Returned[c] # varray0[c]

\* C5: with inplace=False the caller's video is never written and the
\* corrections are in the returned video; with inplace=True they are in the
\* caller's video.
C5_InplaceOrCopy ==
    /\ ~inplace => varray = varray0
    /\ Completed =>
          IF inplace
          THEN ret.data = "varray" /\ varray = Corrected
          ELSE ret.data = "copy" /\ copied = Corrected

C5_Witness ==
    /\ Completed
    /\ ~inplace
    /\ copied # varray0

\* C6: the flagged-point set is the set of mask entries strictly above the
\* caller's spot_thres for a mask of at most two axes, and strictly above 0
\* for a mask of three axes.
C6_FlaggedSet ==
    pc = "cb_sur" =>
        /\ Range(brt_list) =
              {p \in DOMAIN spots :
                  spots[p] > (IF Len(spot_dim) <= 2 THEN arg_spot_thres ELSE 0)}
        /\ Len(brt_list) = Cardinality(Range(brt_list))

\* a two-axis mask with an entry equal to spot_thres beside a flagged entry
C6_Witness ==
    /\ pc = "cb_sur"
    /\ Len(spot_dim) = 2
    /\ arg_spot_thres > 0
    /\ \E p \in DOMAIN spots : spots[p] = arg_spot_thres /\ p \notin Range(brt_list)
    /\ brt_list # <<>>

\* C10: a unit of work reads no location that any unit writes and writes only
\* its own point, so under every interleaving the video ends as the
\* sequential loop leaves it, and every location that is not a flagged point
\* with neighbors keeps its pre-call value.
C10_OrderIndependent ==
    pc \in {"par_fix", "done"} /\ ret.obj # "varray" =>
        LET F == FlaggedPoints
            written == {c \in Cells : varray[c] # varray0[c]}
        IN /\ \A i \in 1 .. Len(sur_list) : sur_list[i] \cap Range(brt_list) = {}
           /\ \A c \in written :
                 \E i \in DOMAIN unit :
                     /\ unit[i] = "done"
                     /\ Covers(brt_list[i], c)
                     /\ BoxNeighbors(brt_list[i], F) # {}
           /\ pc = "done" => Returned = SequentialFix(varray0, 1)

\* two units ran interleaved, the later-indexed one writing first, and both
\* changed their points
C10_Witness ==
    /\ pc = "par_fix"
    /\ \E i, j \in DOMAIN unit :
          /\ i < j
          /\ unit[i] = "read" /\ unit[j] = "done"
          /\ InBox(brt_list[i], brt_list[j])
          /\ \E c \in Loc(brt_list[j]) : varray[c] # varray0[c]

----------------------------------------------------------------------------
(* The claims about detect_brightspot *)

\* the full tiles whose end labels are both multiples of step
FullTiles ==
    {t \in DetHeights \X DetWidths :
        /\ t[1] % step = 0 /\ t[2] % step = 0
        /\ t[1] - window + 1 >= 0 /\ t[2] - window + 1 >= 0}

\* the scan has gone past tile t
Passed(t) ==
    \/ pc = "done"
    \/ pc \in {"db_h", "db_w"} /\ t[1] < ih
    \/ pc = "db_w" /\ t[1] = ih /\ t[2] < iw

\* the processed tiles that hold pixel p and in which p's z-score was above
\* the threshold the tile was processed with
VotesFor(m, p) ==
    {t \in DOMAIN processed :
        /\ p.height \in Slice(t[1]) /\ p.width \in Slice(t[2])
        /\ ZGreater(ZScore(m, t[1], p), processed[t])}

C7_State ==
    pc # "db_start" =>
        /\ DOMAIN processed = {t \in FullTiles : Passed(t)}
        /\ LET m == Mean(varray)
           IN \A p \in Pixels : spots[p] = Cardinality(VotesFor(m, p))
        /\ (processed = <<>> => \A p \in Pixels : spots[p] = 0)

C7_Step == \A p \in DOMAIN spots : spots'[p] >= spots[p]

\* C7: the mask starts at zero and its entries never decrease; a tile is
\* processed exactly when its height and width labels are multiples of step
\* and it is a full window-by-window tile; in the end each pixel's entry is the
\* number of processed tiles that hold it and scored it above their threshold.
C7_VoteCount == []C7_State /\ [][C7_Step]_vars

\* a pixel voted for by two overlapping tiles, with a tile passed over for its
\* label and one passed over for being partial
C7_Witness ==
    /\ pc = "done"
    /\ \E p \in Pixels : spots[p] >= 2
    /\ \E t \in DetHeights \X DetWidths :
          /\ t[1] % step # 0 \/ t[2] % step # 0
          /\ t[1] >= window - 1 /\ t[2] >= window - 1
    /\ \E t \in DetHeights \X DetWidths :
          t[1] % step = 0 /\ t[2] % step = 0 /\ t \notin DOMAIN processed

\* C8: the adaptive threshold, minus the least z-score of the tile, is used
\* only when the caller gives no thres; a thres the caller gives is the
\* threshold of every processed tile.
C8_SuppliedThresholdUsed ==
    \A t \in DOMAIN processed :
        IF thres.given
        THEN processed[t] = ZOf(thres)
        ELSE LET m == Mean(varray)
             IN processed[t] =
                  ZNeg(ZMin([p \in TilePixels(t[1], t[2]) |-> ZScore(m, t[1], p)]))

\* what the code does instead: a thres that is given and not zero is the
\* threshold of every processed tile; without thres, and with thres = 0, the
\* tile's own adaptive threshold is
C8_NonZeroThresholdUsed ==
    \A t \in DOMAIN processed :
        IF thres.given /\ thres.num # 0
        THEN processed[t] = ZOf(thres)
        ELSE LET m == Mean(varray)
             IN processed[t] =
                  ZNeg(ZMin([p \in TilePixels(t[1], t[2]) |-> ZScore(m, t[1], p)]))

----------------------------------------------------------------------------
(* The claim about detect_brightspot_perframe *)

\* the number of pixels of frame fid whose sample is below pixel p's
Below(fid, p) ==
    Cardinality({o \in Pixels : varray[Cell(fid, o)] < varray[Cell(fid, p)]})

\* C9: the mask has the frames in input order, and in frame f a pixel is
\* flagged exactly when its sample is above the sorted sample of frame f at
\* index floor(thres * (n - 1)): exactly when more than that many samples of
\* frame f lie below it.  No other frame and no order of the tasks matters.
C9_PerFrameLowerQuantile ==
    pc = "done" =>
        /\ Len(spots) = NFrame
        /\ \A i \in 1 .. NFrame :
              /\ spots[i].frame = i - 1
              /\ \A p \in Pixels :
                    spots[i].flags[p] <=>
                        Below(i - 1, p) * thres.den >
                            thres.num * (Cardinality(Pixels) - 1)

\* the quantile fell between two samples, the tasks ran out of order, and two
\* frames got different masks
C9_Witness ==
    /\ pc = "done"
    /\ (thres.num * (Cardinality(Pixels) - 1)) % thres.den # 0
    /\ unit[1] > unit[2]
    /\ spots[1].flags # spots[2].flags
    /\ \E p, o \in Pixels : spots[1].flags[p] /\ ~spots[1].flags[o]

====
